---- MODULE Spec2Model ----
(***************************************************************************)
(* A model of the camera capture engine of camers_display:                 *)
(*   src/core/camera_manager.py  CameraThread (one capture loop per        *)
(*                               source) and CameraManager (the supervisor)*)
(*   src/core/config_manager.py  ConfigManager (the stored descriptors)    *)
(*                                                                         *)
(* Every CameraThread object is a record of the function `threads`; its    *)
(* run() method is cut into steps at the accesses to state that another    *)
(* thread of execution can see (running, connected, latest_frame,          *)
(* frame_queue) and at its blocking calls (open, read, sleep).  The        *)
(* supervisor's operations and the consumers' calls all run on the one Qt  *)
(* main thread (camera_view.py update_frame on a QTimer, camera_grid.py    *)
(* on_config_clicked / closeEvent), so they are serialised with each other *)
(* and interleave only with the capture threads.                           *)
(***************************************************************************)
EXTENDS Integers, Sequences, FiniteSets, TLC

\* ------------------------------------------------------------------ bounds
\* range(48) in reload_config, scaled down.
NumCameras == 2
\* CameraThread objects that exist at a time (in the map, or still running
\* after a timed-out join removed them from it).
MaxThreads == 2
\* Successful reads a source delivers in the single-loop specification.
MaxFrames == 3
\* Reads that return at all, per source, in the whole-system specification
\* (a read past them blocks, as on a stalled stream).
SysReads == 1

\* ------------------------------------------------------- program constants
\* queue.Queue(maxsize=2)
QueueMaxSize == 2
\* if read_failures > 5
MaxReadFailures == 5

Cameras == 0 .. (NumCameras - 1)
TIDs == 1 .. MaxThreads
\* A key absent from camera_threads.
NoThread == 0
\* No index (None).
NoIndex == 0 - 1

\* A frame is identified by the loop that read it and its rank among that
\* loop's successful reads; None is NoFrame.
NoFrame == [cam |-> NoIndex, n |-> 0]
Frame(i, k) == [cam |-> i, n |-> k]

\* The descriptors a caller can store: the dict of config_dialog.on_save_clicked
\* (name and device do not influence the engine and are left out).
Descriptor(e, st, u) == [enabled |-> e, source_type |-> st, url |-> u]
DefaultDescriptor == Descriptor(FALSE, "rtsp", "")
Descriptors ==
    { DefaultDescriptor,
      Descriptor(TRUE, "rtsp", ""),
      Descriptor(TRUE, "local", "") }

VARIABLES
    config,          \* ConfigManager.config["cameras"]
    camera_threads,  \* CameraManager.camera_threads: index -> thread (NoThread: absent)
    threads,         \* the CameraThread objects
    source,          \* the environment: the frames each source still delivers, and
                     \* (for one that stalls) the reads that still return
    mop,             \* the main thread's position
    mtodo,           \* stop_all_cameras: the keys still to stop
    mjoin,           \* the index whose thread the main thread is joining
    midx,            \* the index of the get_frame call in progress or last made,
                     \* or of the stop_camera call in progress
    mres,            \* the frame the last get_frame returned; the consumer of an
                     \* index remembers it while its next get_frame is in progress
    mlast,           \* "get_frame" once a get_frame call has returned
    mhad,            \* what the polled loop had when get_frame was called
    file,            \* camera_config.json, as load_config would find it
    test             \* the test_camera_connection call in progress

vars == << config, camera_threads, threads, source, mop, mtodo, mjoin, midx,
           mres, mlast, mhad, file, test >>

storeVars == << file, test >>

mainVars == << mop, mtodo, mjoin, midx, mres, mlast, mhad >>

\* ----------------------------------------------------- CameraThread object
\* A thread object that is not given the descriptor of its index.
NewThread_Stale(i, cfg) ==
    [ pc |-> "start", camera_index |-> i, config |-> DefaultDescriptor,
      running |-> FALSE, connected |-> FALSE,
      frame_queue |-> << >>, latest_frame |-> NoFrame,
      read_failures |-> 0, frame |-> NoFrame, fails |-> 0, drops |-> 0,
      cap |-> "none", stop_issued |-> FALSE ]

\* CameraThread.__init__ (pc "start": started, run() not yet entered).
\* Beside the object's attributes and run()'s locals (read_failures, frame, cap)
\* the record keeps three observations: `fails`, the failed reads (ret = False)
\* since the last successful read; `drops`, how often connected went from True
\* to False; and `stop_issued`, whether stop() was called.
NewThread(i, cfg) ==
    [ pc |-> "start", camera_index |-> i, config |-> cfg,
      running |-> FALSE, connected |-> FALSE,
      frame_queue |-> << >>, latest_frame |-> NoFrame,
      read_failures |-> 0, frame |-> NoFrame, fails |-> 0, drops |-> 0,
      cap |-> "none", stop_issued |-> FALSE ]

\* No object.
Blank == [ NewThread(NoIndex, DefaultDescriptor) EXCEPT !.pc = "none" ]

\* run() returned: its locals are gone, the object's attributes stay.
Ended(th) ==
    [ th EXCEPT !.pc = "done", !.read_failures = 0, !.frame = NoFrame, !.fails = 0 ]

InMap(t) == \E i \in Cameras : camera_threads[i] = t
IsAlive(t) == threads[t].pc \notin {"none", "done"}
Zombies == { t \in TIDs : IsAlive(t) /\ ~InMap(t) }
FreeTIDs == { t \in TIDs : ~IsAlive(t) /\ ~InMap(t) }

\* The thread's last step: the object of an unreferenced thread is dropped.
Finish(t, th) == IF InMap(t) THEN Ended(th) ELSE Blank

\* A queue that takes one frame more than its bound.
QueueFull_OffByOne(q) == Len(q) > QueueMaxSize

\* queue.Queue(maxsize=2)
QueueFull(q) == Len(q) >= QueueMaxSize
QueueEmpty(q) == Len(q) = 0

\* A loop that gives up one failed read early.
TooManyFailures_Early(n) == n >= MaxReadFailures

\* if read_failures > 5
TooManyFailures(n) == n > MaxReadFailures

\* run(), lines 41-54: running = True, then the descriptor's checks.
ThreadStart(t) ==
    /\ threads[t].pc = "start"
    /\ LET th == threads[t]
           skip == \/ ~th.config.enabled
                   \/ (th.config.source_type = "rtsp" /\ th.config.url = "")
       IN threads' = [threads EXCEPT ![t] =
              IF skip THEN Finish(t, [th EXCEPT !.running = TRUE])
                      ELSE [th EXCEPT !.running = TRUE, !.pc = "open"]]
    /\ UNCHANGED << storeVars, config, camera_threads, source, mainVars >>

\* A loop that tries the open again after a failure.
ThreadOpen_Retry(t) ==
    /\ threads[t].pc = "open"
    /\ \E opened \in BOOLEAN :
          threads' = [threads EXCEPT ![t] =
              IF opened
              THEN [@ EXCEPT !.cap = "open", !.connected = TRUE,
                             !.read_failures = 0, !.pc = "loop"]
              ELSE [@ EXCEPT !.cap = "failed"]]
    /\ UNCHANGED << storeVars, config, camera_threads, source, mainVars >>

\* A loop whose failed open removes its own entry from the supervisor's map.
ThreadOpen_Unmaps(t) ==
    /\ threads[t].pc = "open"
    /\ \E opened \in BOOLEAN :
          IF opened
          THEN /\ threads' = [threads EXCEPT ![t] =
                      [@ EXCEPT !.cap = "open", !.connected = TRUE,
                                !.read_failures = 0, !.pc = "loop"]]
               /\ UNCHANGED camera_threads
          ELSE /\ threads' = [threads EXCEPT ![t] = Blank]
               /\ camera_threads' = [i \in Cameras |->
                      IF camera_threads[i] = t THEN NoThread ELSE camera_threads[i]]
    /\ UNCHANGED << storeVars, config, source, mainVars >>

\* run(), lines 57-72: cv2.VideoCapture(...), isOpened(), connected = True.
ThreadOpen(t) ==
    /\ threads[t].pc = "open"
    /\ \E opened \in BOOLEAN :
          threads' = [threads EXCEPT ![t] =
              IF opened
              THEN [@ EXCEPT !.cap = "open", !.connected = TRUE,
                             !.read_failures = 0, !.pc = "loop"]
              ELSE Finish(t, [@ EXCEPT !.cap = "failed"])]
    /\ UNCHANGED << storeVars, config, camera_threads, source, mainVars >>

\* run(), line 76: while self.running
ThreadLoop(t) ==
    /\ threads[t].pc = "loop"
    /\ threads' = [threads EXCEPT ![t].pc =
                      IF threads[t].running THEN "read" ELSE "cleanup"]
    /\ UNCHANGED << storeVars, config, camera_threads, source, mainVars >>

\* connected = False: one more drop if it was True.
Drop(th) == IF th.connected THEN th.drops + 1 ELSE th.drops

\* What cap.read() can do: block, deliver a frame, return ret = False, or raise.
CanReturn(i) == ~source[i].stalls \/ source[i].reads > 0
CanDeliver(i) == CanReturn(i) /\ source[i].frames > 0
Spend(i, n) == IF source[i].stalls THEN n - 1 ELSE n

\* run(), lines 79-92 and 111-113: one cap.read() and the bookkeeping on the
\* loop's local counter.
ThreadRead(t) ==
    /\ threads[t].pc = "read"
    /\ LET th == threads[t]
           i == th.camera_index
       IN \/ /\ CanDeliver(i)                                   \* ret = True
             /\ threads' = [threads EXCEPT ![t] =
                    [th EXCEPT !.read_failures = 0, !.fails = 0,
                               !.frame = Frame(i, th.latest_frame.n + 1),
                               !.pc = "store"]]
             /\ source' = [source EXCEPT ![i].frames = @ - 1,
                                         ![i].reads = Spend(i, @)]
          \/ /\ CanReturn(i)                                    \* ret = False
             /\ threads' = [threads EXCEPT ![t] =
                    IF TooManyFailures(th.read_failures + 1)
                    THEN [th EXCEPT !.read_failures = th.read_failures + 1,
                                    !.fails = th.fails + 1,
                                    !.drops = Drop(th),
                                    !.connected = FALSE, !.pc = "cleanup"]
                    ELSE [th EXCEPT !.read_failures = th.read_failures + 1,
                                    !.fails = th.fails + 1,
                                    !.pc = "backoff"]]
             /\ source' = [source EXCEPT ![i].reads = Spend(i, @)]
          \/ /\ CanReturn(i)                                    \* an exception
             /\ threads' = [threads EXCEPT ![t].pc = "pause"]
             /\ source' = [source EXCEPT ![i].reads = Spend(i, @)]
    /\ UNCHANGED << storeVars, config, camera_threads, mainVars >>

\* run(), line 95: self.latest_frame = frame
ThreadStore(t) ==
    /\ threads[t].pc = "store"
    /\ threads' = [threads EXCEPT ![t].latest_frame = threads[t].frame,
                                  ![t].pc = "put"]
    /\ UNCHANGED << storeVars, config, camera_threads, source, mainVars >>

\* put(frame, block=False) completes without waiting, whatever the queue holds.
PutNoWait(q) == TRUE

\* run(), lines 98-100: frame_queue.put(frame, block=False), or queue.Full.
ThreadPut(t) ==
    /\ threads[t].pc = "put"
    /\ PutNoWait(threads[t].frame_queue)
    /\ threads' = [threads EXCEPT ![t] =
          IF QueueFull(@.frame_queue)
          THEN [@ EXCEPT !.pc = "evict"]
          ELSE [@ EXCEPT !.frame_queue = Append(@, threads[t].frame),
                         !.frame = NoFrame, !.pc = "sleep"]]
    /\ UNCHANGED << storeVars, config, camera_threads, source, mainVars >>

\* A loop that makes room by dropping the newest queued frame.
ThreadEvict_Newest(t) ==
    /\ threads[t].pc = "evict"
    /\ threads' = [threads EXCEPT ![t] =
          IF QueueEmpty(@.frame_queue)
          THEN [@ EXCEPT !.frame = NoFrame, !.pc = "sleep"]
          ELSE [@ EXCEPT !.frame_queue = SubSeq(@, 1, Len(@) - 1), !.pc = "reput"]]
    /\ UNCHANGED << storeVars, config, camera_threads, source, mainVars >>

\* run(), lines 102-103 and 105-106: frame_queue.get(block=False), or queue.Empty.
ThreadEvict(t) ==
    /\ threads[t].pc = "evict"
    /\ threads' = [threads EXCEPT ![t] =
          IF QueueEmpty(@.frame_queue)
          THEN [@ EXCEPT !.frame = NoFrame, !.pc = "sleep"]
          ELSE [@ EXCEPT !.frame_queue = Tail(@), !.pc = "reput"]]
    /\ UNCHANGED << storeVars, config, camera_threads, source, mainVars >>

\* run(), line 104: the second put; a queue.Full here reaches the outer except.
ThreadReput(t) ==
    /\ threads[t].pc = "reput"
    /\ PutNoWait(threads[t].frame_queue)
    /\ threads' = [threads EXCEPT ![t] =
          IF QueueFull(@.frame_queue)
          THEN [@ EXCEPT !.frame = NoFrame, !.pc = "pause"]
          ELSE [@ EXCEPT !.frame_queue = Append(@, threads[t].frame),
                         !.frame = NoFrame, !.pc = "sleep"]]
    /\ UNCHANGED << storeVars, config, camera_threads, source, mainVars >>

\* A loop that gives up after an exception.
ThreadSleep_PauseExits(t) ==
    /\ threads[t].pc \in {"sleep", "backoff", "pause"}
    /\ threads' = [threads EXCEPT ![t].pc =
                      IF threads[t].pc = "pause" THEN "cleanup" ELSE "loop"]
    /\ UNCHANGED << storeVars, config, camera_threads, source, mainVars >>

\* run(), lines 88-89, 109 and 113: time.sleep(0.5) / (0.03) / (1), then the
\* next iteration.
ThreadSleep(t) ==
    /\ threads[t].pc \in {"sleep", "backoff", "pause"}
    /\ threads' = [threads EXCEPT ![t].pc = "loop"]
    /\ UNCHANGED << storeVars, config, camera_threads, source, mainVars >>

\* A loop that reconnects by itself instead of ending.
ThreadCleanup_Reconnect(t) ==
    /\ threads[t].pc = "cleanup"
    /\ threads' = [threads EXCEPT ![t] =
          [@ EXCEPT !.cap = "released", !.drops = Drop(threads[t]),
                    !.connected = FALSE, !.read_failures = 0, !.fails = 0,
                    !.pc = IF threads[t].running THEN "open" ELSE "done"]]
    /\ UNCHANGED << storeVars, config, camera_threads, source, mainVars >>

\* A loop that releases its handle and leaves connected as it is.
ThreadCleanup_KeepsConnected(t) ==
    /\ threads[t].pc = "cleanup"
    /\ threads' = [threads EXCEPT ![t] = Finish(t, [@ EXCEPT !.cap = "released"])]
    /\ UNCHANGED << storeVars, config, camera_threads, source, mainVars >>

\* run(), lines 116-117: cap.release(); self.connected = False
ThreadCleanup(t) ==
    /\ threads[t].pc = "cleanup"
    /\ threads' = [threads EXCEPT ![t] =
          Finish(t, [@ EXCEPT !.cap = "released", !.drops = Drop(threads[t]),
                              !.connected = FALSE])]
    /\ UNCHANGED << storeVars, config, camera_threads, source, mainVars >>

ThreadStep(t) ==
    \/ ThreadStart(t)
    \/ ThreadOpen(t)
    \/ ThreadLoop(t)
    \/ ThreadRead(t)
    \/ ThreadStore(t)
    \/ ThreadPut(t)
    \/ ThreadEvict(t)
    \/ ThreadReput(t)
    \/ ThreadSleep(t)
    \/ ThreadCleanup(t)

\* ------------------------------------------------------------ CameraThread.stop
\* The thread objects the operation in progress has still to create.
Demand ==
    IF mop = "reload"
    THEN Cardinality({ i \in Cameras : config[i].enabled })
    ELSE 0

\* join(timeout=1.0) gives up on a thread that cannot end within the second:
\* one inside cv2.VideoCapture(...) or cap.read() (both block for as long as
\* the transport does), one in the 1 s pause after an exception, and one whose
\* running flag is True (it has not seen the stop).
JoinTimesOut(t) ==
    /\ IsAlive(t)
    /\ \/ threads[t].pc \in {"open", "read", "pause"}
       \/ (threads[t].running /\ threads[t].pc # "start")
    /\ Cardinality(Zombies) + 1 + Demand <= MaxThreads

\* stop(), line 131: self.running = False
SignalStop(th) == [th EXCEPT !.running = FALSE, !.stop_issued = TRUE]

\* ------------------------------------------------------------- CameraManager
Keys == { i \in Cameras : camera_threads[i] # NoThread }

\* A supervisor that asks only whether the index has a loop.
IsCameraConnected_AnyLoop(i) == i \in Keys

\* is_camera_connected()
IsCameraConnected(i) ==
    /\ i \in Keys
    /\ threads[camera_threads[i]].connected

\* The main thread returns from operation `op` to the event loop.
Return(op) ==
    /\ mop' = "idle"
    /\ mlast' = IF op = "get_frame" THEN op ELSE "none"

\* A new call from the event loop: what the last call returned is gone.
Forget ==
    /\ midx' = NoIndex
    /\ mres' = NoFrame
    /\ mlast' = "none"
    /\ mhad' = "none"

\* A stop_camera that stops every loop.
StopCamera_All(i) ==
    /\ mop = "idle"
    /\ mop' = "stop"
    /\ mtodo' = Keys
    /\ midx' = i
    /\ mres' = NoFrame
    /\ mlast' = "none"
    /\ mhad' = "none"
    /\ UNCHANGED << storeVars, config, camera_threads, threads, source, mjoin >>

\* stop_camera(i) called from the event loop: if camera_index in self.camera_threads
StopCamera(i) ==
    /\ mop = "idle"
    /\ mop' = "stop"
    /\ mtodo' = {i} \cap Keys
    /\ midx' = i
    /\ mres' = NoFrame
    /\ mlast' = "none"
    /\ mhad' = "none"
    /\ UNCHANGED << storeVars, config, camera_threads, threads, source, mjoin >>

\* stop_all_cameras() called from the event loop: list(self.camera_threads.keys())
StopAllCameras ==
    /\ mop = "idle"
    /\ mop' = "stop_all"
    /\ mtodo' = Keys
    /\ Forget
    /\ UNCHANGED << storeVars, config, camera_threads, threads, source, mjoin >>

\* reload_config() called from the event loop; it starts with stop_all_cameras().
ReloadConfig ==
    /\ mop = "idle"
    /\ Cardinality(Zombies) + Cardinality({ i \in Cameras : config[i].enabled })
          <= MaxThreads
    /\ mop' = "reload"
    /\ mtodo' = Keys
    /\ Forget
    /\ UNCHANGED << storeVars, config, camera_threads, threads, source, mjoin >>

Min(S) == CHOOSE x \in S : \A y \in S : x <= y

\* stop_camera(), lines 188-190, up to the join: thread.stop() sets running to
\* False and joins a live thread; a dead one is deleted at once.
StopNext ==
    /\ mop \in {"stop", "stop_all", "reload"}
    /\ mjoin = NoIndex
    /\ mtodo # {}
    /\ LET i == Min(mtodo)
           t == camera_threads[i]
       IN IF IsAlive(t)
          THEN /\ threads' = [threads EXCEPT ![t] = SignalStop(@)]
               /\ mjoin' = i
               /\ UNCHANGED << camera_threads, mtodo >>
          ELSE /\ threads' = [threads EXCEPT ![t] = Blank]
               /\ camera_threads' = [camera_threads EXCEPT ![i] = NoThread]
               /\ mtodo' = mtodo \ {i}
               /\ UNCHANGED mjoin
    /\ UNCHANGED << storeVars, config, source, mop, midx, mres, mlast, mhad >>

\* stop(), lines 133-134, and stop_camera(), line 190: the join returns (the
\* thread ended, or the timeout expired) and the entry is deleted.
JoinReturn ==
    /\ mjoin # NoIndex
    /\ LET i == mjoin
           t == camera_threads[i]
       IN /\ \/ ~IsAlive(t)
             \/ JoinTimesOut(t)
          /\ threads' = [threads EXCEPT ![t] = IF IsAlive(t) THEN @ ELSE Blank]
          /\ camera_threads' = [camera_threads EXCEPT ![i] = NoThread]
          /\ mtodo' = mtodo \ {i}
    /\ mjoin' = NoIndex
    /\ UNCHANGED << storeVars, config, source, mop, midx, mres, mlast, mhad >>

\* stop_camera() / stop_all_cameras() return.
StopReturn ==
    /\ mop \in {"stop", "stop_all"}
    /\ mjoin = NoIndex
    /\ mtodo = {}
    /\ Return(mop)
    /\ midx' = NoIndex
    /\ UNCHANGED << storeVars, config, camera_threads, threads, source, mtodo, mjoin, mres, mhad >>

\* The k-th smallest element of S, k from 0.
Kth(S, k) == CHOOSE x \in S : Cardinality({ y \in S : y < x }) = k
Rank(S, x) == Cardinality({ y \in S : y < x })

\* A reload that starts a thread for every index.
ShouldStart_Always(cfg) == TRUE

\* if config.get('enabled', False)
ShouldStart(cfg) == cfg.enabled

\* A reload that gives each thread the index after its own.
ReloadStart_Shifted ==
    /\ mop = "reload"
    /\ mjoin = NoIndex
    /\ mtodo = {}
    /\ LET en == { i \in Cameras : ShouldStart(config[i]) }
           obj(i) == Kth(FreeTIDs, Rank(en, i))
       IN /\ camera_threads' = [i \in Cameras |-> IF i \in en THEN obj(i) ELSE NoThread]
          /\ threads' = [t \in TIDs |->
                IF \E i \in en : obj(i) = t
                THEN NewThread(((CHOOSE i \in en : obj(i) = t) + 1) % NumCameras,
                               config[CHOOSE i \in en : obj(i) = t])
                ELSE threads[t]]
    /\ Return("reload")
    /\ UNCHANGED << storeVars, config, source, mtodo, mjoin, midx, mres, mhad >>

\* reload_config(), lines 161-173: clear the map, then create and start one
\* thread per enabled index; each gets the stored descriptor of its index.
ReloadStart ==
    /\ mop = "reload"
    /\ mjoin = NoIndex
    /\ mtodo = {}
    /\ LET en == { i \in Cameras : ShouldStart(config[i]) }
           obj(i) == Kth(FreeTIDs, Rank(en, i))
       IN /\ camera_threads' = [i \in Cameras |-> IF i \in en THEN obj(i) ELSE NoThread]
          /\ threads' = [t \in TIDs |->
                IF \E i \in en : obj(i) = t
                THEN NewThread(CHOOSE i \in en : obj(i) = t,
                               config[CHOOSE i \in en : obj(i) = t])
                ELSE threads[t]]
    /\ Return("reload")
    /\ UNCHANGED << storeVars, config, source, mtodo, mjoin, midx, mres, mhad >>

\* CameraManager.is_camera_connected(i) called by a consumer (camera_view.py:70).
IsConnectedCall(i) ==
    /\ mop = "idle"
    /\ Forget
    /\ UNCHANGED << storeVars, config, camera_threads, threads, source, mop, mtodo, mjoin >>

\* What a loop has of its successful reads: nothing, a frame read and not yet
\* stored, or a stored latest_frame.
Had(th) ==
    IF th.latest_frame # NoFrame THEN "stored"
    ELSE IF th.frame # NoFrame THEN "read"
    ELSE "none"

\* CameraManager.get_frame(i), lines 177-179: the guard, then the loop's get_frame.
GetFrameCall(i) ==
    /\ mop = "idle"
    /\ midx' = i
    /\ mhad' = IF i \notin Keys THEN "none" ELSE Had(threads[camera_threads[i]])
    /\ IF IsCameraConnected(i)
       THEN /\ mop' = "gf_get"
            /\ mlast' = "none"
            /\ mres' = IF i = midx /\ mlast = "get_frame" THEN mres ELSE NoFrame
       ELSE /\ Return("get_frame")
            /\ mres' = NoFrame
    /\ UNCHANGED << storeVars, config, camera_threads, threads, source, mtodo, mjoin >>

\* frame_queue.get(block=True): the call waits for a frame.
GetNoWait_Blocking(q) == ~QueueEmpty(q)

\* frame_queue.get(block=False) completes without waiting, whatever the queue holds.
GetNoWait(q) == TRUE

\* A get_frame that prefers latest_frame to the queue.
GetFrameQueue_LatestFirst ==
    /\ mop = "gf_get"
    /\ LET t == camera_threads[midx]
           q == threads[t].frame_queue
       IN IF threads[t].latest_frame = NoFrame /\ QueueEmpty(q)
          THEN /\ mop' = "gf_latest"
               /\ UNCHANGED << mres, mlast >>
          ELSE /\ mres' = threads[t].latest_frame
               /\ Return("get_frame")
    /\ UNCHANGED << storeVars, config, camera_threads, threads, source, mtodo, mjoin, midx, mhad >>

\* CameraThread.get_frame(), lines 123-125: frame_queue.get(block=False).
GetFrameQueue ==
    /\ mop = "gf_get"
    /\ LET t == camera_threads[midx]
           q == threads[t].frame_queue
       IN /\ GetNoWait(q)
          /\ IF QueueEmpty(q)
             THEN /\ mop' = "gf_latest"
                  /\ UNCHANGED << threads, mres, mlast >>
             ELSE /\ mres' = Head(q)
                  /\ threads' = [threads EXCEPT ![t].frame_queue = Tail(q)]
                  /\ Return("get_frame")
    /\ UNCHANGED << storeVars, config, camera_threads, source, mtodo, mjoin, midx, mhad >>

\* A get_frame that gives up when the queue is empty.
GetFrameLatest_None ==
    /\ mop = "gf_latest"
    /\ mres' = NoFrame
    /\ Return("get_frame")
    /\ UNCHANGED << storeVars, config, camera_threads, threads, source, mtodo, mjoin, midx, mhad >>

\* CameraThread.get_frame(), lines 125-127: return self.latest_frame
GetFrameLatest ==
    /\ mop = "gf_latest"
    /\ mres' = threads[camera_threads[midx]].latest_frame
    /\ Return("get_frame")
    /\ UNCHANGED << storeVars, config, camera_threads, threads, source, mtodo, mjoin, midx, mhad >>

\* ------------------------------------------------------------- ConfigManager
\* What load_config can find: no file; a file that open() refuses (IOError);
\* bytes that are not text in the default encoding; text that is not JSON (an
\* empty file is one); the JSON of a configuration.
FileKinds == {"absent", "unreadable", "not_text", "not_json", "valid"}

\* Before ConfigManager.__init__ has assigned self.config there is no attribute.
Unset == [i \in Cameras |-> Descriptor(FALSE, "unset", "")]

\* get_default_config(): every slot disabled.
DefaultConfig == [i \in Cameras |-> DefaultDescriptor]

\* save_config(), lines 40-46: open(file, 'w') and json.dump; an IOError is
\* logged and the file stays as it was.
Saved(f) == {"valid", f}

\* ConfigManager.__init__ / load_config(), lines 18-36, the main thread's first
\* step.  With no file, load_config calls save_config() before __init__ has
\* assigned self.config: open(..., 'w') creates the file (empty) and
\* json.dump(self.config, ...) raises AttributeError, which `except IOError`
\* does not catch; only if the file cannot be created (IOError) does the
\* constructor complete.  json.load raises UnicodeDecodeError, a ValueError
\* that is neither JSONDecodeError nor IOError, on a file that is not text.
Construct ==
    /\ mop = "new"
    /\ \/ /\ file = "absent"
          /\ \E created \in BOOLEAN :
                IF created
                THEN file' = "not_json" /\ config' = Unset /\ mop' = "crashed"
                ELSE file' = file /\ config' = DefaultConfig /\ mop' = "idle"
       \/ /\ file \in {"unreadable", "not_json"}
          /\ config' = DefaultConfig
          /\ mop' = "idle"
          /\ UNCHANGED file
       \/ /\ file = "not_text"
          /\ mop' = "crashed"
          /\ UNCHANGED << config, file >>
       \/ /\ file = "valid"
          /\ config' \in [Cameras -> Descriptors]
          /\ mop' = "idle"
          /\ UNCHANGED file
    /\ UNCHANGED << camera_threads, threads, source, mtodo, mjoin, midx, mres,
                    mlast, mhad, test >>

\* A set_camera_config that updates the stored dict in place, so that a loop
\* started from it sees the change.
SetCameraConfig_InPlace(i, d) ==
    /\ mop = "idle"
    /\ config[i] # d
    /\ config' = [config EXCEPT ![i] = d]
    /\ threads' = [t \in TIDs |->
          IF threads[t].pc # "none" /\ threads[t].camera_index = i
          THEN [threads[t] EXCEPT !.config = d]
          ELSE threads[t]]
    /\ file' \in Saved(file)
    /\ Forget
    /\ UNCHANGED << camera_threads, source, mop, mtodo, mjoin, test >>

\* set_camera_config(i, d) with an index in range: the slot is replaced by the
\* caller's new dict and save_config() rewrites the file.
SetCameraConfig(i, d) ==
    /\ mop = "idle"
    /\ config[i] # d
    /\ config' = [config EXCEPT ![i] = d]
    /\ file' \in Saved(file)
    /\ Forget
    /\ UNCHANGED << camera_threads, threads, source, mop, mtodo, mjoin, test >>

\* ------------------------------------------- ConfigManager.test_camera_connection
\* No test in progress.  cap is the test's VideoCapture, success its local
\* variable, result what the call returns; opened and read record what
\* isOpened() and cap.read() answered.
NoTest ==
    [ config |-> DefaultDescriptor, cap |-> "none", success |-> FALSE,
      opened |-> FALSE, read |-> "none", result |-> "none" ]

\* The descriptors the dialog can hand to the test.
Candidates == Descriptors \cup { Descriptor(TRUE, "rtsp", "rtsp://host/stream") }

\* lines 88-90: an RTSP descriptor with an empty URL is refused at once.
TestCall(d) ==
    /\ mop = "idle"
    /\ IF d.source_type = "rtsp" /\ d.url = ""
       THEN /\ test' = [NoTest EXCEPT !.config = d, !.result = "fail"]
            /\ mop' = "test_ret"
       ELSE /\ test' = [NoTest EXCEPT !.config = d]
            /\ mop' = "test_open"
    /\ Forget
    /\ UNCHANGED << config, camera_threads, threads, source, mtodo, mjoin, file >>

\* lines 93-94 / 113-114: cv2.VideoCapture(...), isOpened(); an exception
\* reaches `except Exception` at line 129.
TestOpen ==
    /\ mop = "test_open"
    /\ \/ /\ test' = [test EXCEPT !.cap = "open", !.opened = TRUE, !.success = TRUE]
          /\ mop' = "test_read"
       \/ /\ test' = [test EXCEPT !.cap = "failed", !.success = FALSE]
          /\ mop' = "test_release"
       \/ /\ test' = [test EXCEPT !.result = "fail"]
          /\ mop' = "test_ret"
    /\ UNCHANGED << config, camera_threads, threads, source, mtodo, mjoin, midx,
                    mres, mlast, mhad, file >>

\* lines 96-99 / 116-119: ret, frame = cap.read(); success = ret; an exception
\* reaches line 129, which returns without cap.release(): the handle stays
\* open unless the interpreter destroys the VideoCapture object as the call's
\* frame is discarded (the language leaves the moment of destruction open).
TestRead ==
    /\ mop = "test_read"
    /\ \/ /\ \E ret \in BOOLEAN :
                test' = [test EXCEPT !.success = ret,
                                     !.read = IF ret THEN "ok" ELSE "fail"]
          /\ mop' = "test_release"
       \/ /\ \E c \in {"open", "released"} :
                test' = [test EXCEPT !.read = "raised", !.result = "fail", !.cap = c]
          /\ mop' = "test_ret"
    /\ UNCHANGED << config, camera_threads, threads, source, mtodo, mjoin, midx,
                    mres, mlast, mhad, file >>

\* A test that reports success whatever the open and the read gave.
TestRelease_AlwaysOk ==
    /\ mop = "test_release"
    /\ test' = [test EXCEPT !.cap = "released", !.result = "ok"]
    /\ mop' = "test_ret"
    /\ UNCHANGED << config, camera_threads, threads, source, mtodo, mjoin, midx,
                    mres, mlast, mhad, file >>

\* lines 102-107 / 122-127: cap.release(), then the result.
TestRelease ==
    /\ mop = "test_release"
    /\ test' = [test EXCEPT !.cap = "released",
                            !.result = IF test.success THEN "ok" ELSE "fail"]
    /\ mop' = "test_ret"
    /\ UNCHANGED << config, camera_threads, threads, source, mtodo, mjoin, midx,
                    mres, mlast, mhad, file >>

\* The call returns (success, message) to the dialog.
TestReturn ==
    /\ mop = "test_ret"
    /\ test' = NoTest
    /\ mop' = "idle"
    /\ UNCHANGED << config, camera_threads, threads, source, mtodo, mjoin, midx,
                    mres, mlast, mhad, file >>

\* The main thread's positions inside test_camera_connection.
TestPcs == {"test_open", "test_read", "test_release", "test_ret"}

TestConnection ==
    \/ \E d \in Candidates : TestCall(d)
    \/ TestOpen
    \/ TestRead
    \/ TestRelease
    \/ TestReturn

\* ------------------------------------------------------------ specifications
MainIdle ==
    /\ mop = "idle"
    /\ mtodo = {}
    /\ mjoin = NoIndex
    /\ midx = NoIndex
    /\ mres = NoFrame
    /\ mlast = "none"
    /\ mhad = "none"

\* The whole system after ConfigManager() loaded a file with every slot
\* disabled and CameraManager() ran its first reload_config(): no thread.
Init ==
    /\ config = DefaultConfig
    /\ file = "valid"
    /\ test = NoTest
    /\ camera_threads = [i \in Cameras |-> NoThread]
    /\ threads = [t \in TIDs |-> Blank]
    /\ source = [i \in Cameras |->
                    [frames |-> SysReads, reads |-> SysReads, stalls |-> TRUE]]
    /\ MainIdle

Supervisor ==
    \/ \E i \in Cameras : StopCamera(i)
    \/ StopAllCameras
    \/ ReloadConfig
    \/ StopNext
    \/ JoinReturn
    \/ StopReturn
    \/ ReloadStart

Consumer ==
    \/ \E i \in Cameras : IsConnectedCall(i)
    \/ \E i \in Cameras : GetFrameCall(i)
    \/ GetFrameQueue
    \/ GetFrameLatest

\* With SysReads frames per source no queue fills up: the steps of a loop that
\* a full queue enables (ThreadEvict, ThreadReput) are those of LoopSpec, and
\* so are the consumers' get_frame calls.
SysThreadStep(t) ==
    \/ ThreadStart(t)
    \/ ThreadOpen(t)
    \/ ThreadLoop(t)
    \/ ThreadRead(t)
    \/ ThreadStore(t)
    \/ ThreadPut(t)
    \/ ThreadSleep(t)
    \/ ThreadCleanup(t)

Next ==
    \/ \E t \in TIDs : SysThreadStep(t)
    \/ Supervisor
    \/ \E i \in Cameras : IsConnectedCall(i)
    \/ \E i \in Cameras, d \in Descriptors : SetCameraConfig(i, d)

Spec == Init /\ [][Next]_vars

\* One capture loop in detail: the stored file enabled source 0 only, and
\* CameraManager() has just started its thread.  The source delivers MaxFrames
\* frames and any number of failed reads.
LoopInit ==
    /\ \E d \in Descriptors :
          /\ d.enabled
          /\ config = [i \in Cameras |-> IF i = 0 THEN d ELSE DefaultDescriptor]
          /\ threads = [t \in TIDs |-> IF t = 1 THEN NewThread(0, d) ELSE Blank]
    /\ camera_threads = [i \in Cameras |-> IF i = 0 THEN 1 ELSE NoThread]
    /\ source = [i \in Cameras |->
                    [frames |-> MaxFrames, reads |-> 0, stalls |-> FALSE]]
    /\ file = "valid"
    /\ test = NoTest
    /\ MainIdle

LoopNext ==
    \/ \E t \in TIDs : ThreadStep(t)
    \/ \E i \in Cameras : StopCamera(i)
    \/ StopAllCameras
    \/ StopNext
    \/ JoinReturn
    \/ StopReturn
    \/ Consumer

LoopSpec == LoopInit /\ [][LoopNext]_vars

\* One capture loop with no consumer: nothing but the loop touches its queue.
ProducerNext ==
    \/ \E t \in TIDs : ThreadStep(t)
    \/ \E i \in Cameras : StopCamera(i)
    \/ StopAllCameras
    \/ StopNext
    \/ JoinReturn
    \/ StopReturn

ProducerSpec == LoopInit /\ [][ProducerNext]_vars

\* LoopSpec with the scheduler's fairness: a thread that can take a step
\* eventually takes one, and so does the main thread inside an operation.
FairLoopSpec ==
    /\ LoopSpec
    /\ \A t \in TIDs : WF_vars(ThreadStep(t))
    /\ WF_vars(StopNext \/ JoinReturn \/ StopReturn \/ GetFrameQueue \/ GetFrameLatest)

\* Several loops and their consumers: from the all-disabled start the settings
\* dialog enables sources (a local device each), reload_config starts their
\* loops, and the views poll get_frame.  Each source delivers SysReads reads.
PairNext ==
    \/ \E t \in TIDs : SysThreadStep(t)
    \/ ReloadConfig
    \/ StopNext
    \/ JoinReturn
    \/ ReloadStart
    \/ \E i \in Cameras : SetCameraConfig(i, Descriptor(TRUE, "local", ""))
    \/ Consumer
    \/ TestConnection

PairSpec == Init /\ [][PairNext]_vars

\* Two capture loops side by side: the stored file enabled both sources (a
\* local device each) and CameraManager() has just started their threads.
\* Each source delivers one frame and any number of failed reads; the
\* supervisor stops and reloads, the views poll.
FaultInit ==
    /\ config = [i \in Cameras |->
                    IF i + 1 \in TIDs THEN Descriptor(TRUE, "local", "")
                                      ELSE DefaultDescriptor]
    /\ threads = [t \in TIDs |->
                    IF t - 1 \in Cameras
                    THEN NewThread(t - 1, Descriptor(TRUE, "local", ""))
                    ELSE Blank]
    /\ camera_threads = [i \in Cameras |-> IF i + 1 \in TIDs THEN i + 1 ELSE NoThread]
    /\ source = [i \in Cameras |-> [frames |-> 1, reads |-> 0, stalls |-> FALSE]]
    /\ file = "valid"
    /\ test = NoTest
    /\ MainIdle

FaultNext ==
    \/ \E t \in TIDs : SysThreadStep(t)
    \/ \E i \in Cameras : StopCamera(i)
    \/ ReloadConfig
    \/ StopNext
    \/ JoinReturn
    \/ StopReturn
    \/ ReloadStart
    \/ Consumer

FaultSpec == FaultInit /\ [][FaultNext]_vars

\* The configuration store alone: the application starts on whatever file
\* there is, then the dialog stores descriptors and tests connections.
StoreInit ==
    /\ file \in FileKinds
    /\ config = Unset
    /\ camera_threads = [i \in Cameras |-> NoThread]
    /\ threads = [t \in TIDs |-> Blank]
    /\ source = [i \in Cameras |->
                    [frames |-> SysReads, reads |-> SysReads, stalls |-> TRUE]]
    /\ test = NoTest
    /\ mop = "new"
    /\ mtodo = {}
    /\ mjoin = NoIndex
    /\ midx = NoIndex
    /\ mres = NoFrame
    /\ mlast = "none"
    /\ mhad = "none"

StoreNext ==
    \/ Construct
    \/ \E i \in Cameras, d \in Descriptors : SetCameraConfig(i, d)
    \/ TestConnection

StoreSpec == StoreInit /\ [][StoreNext]_vars

\* ==================================================================== claims
\* The pcs of a loop that has opened its source and not left the read loop.
LoopPcs == {"loop", "read", "store", "put", "evict", "reput", "sleep", "backoff", "pause"}

\* C1: while a loop is connected, the read that makes 6 failed reads in a row
\* (since the last successful read) sets connected to False and leaves the read
\* loop; a failed read that makes 1 to 5 in a row leaves it connected and
\* backing off; a successful read after any such run leaves it connected with
\* its failure counter at 0, in the read loop, and while it is not told to stop
\* the loop head leads to the next read.
C1_FailureThreshold ==
    [][ \A t \in TIDs :
          LET a == threads[t]
              b == threads'[t]
          IN /\ (a.pc = "read" /\ b.pc # "read") =>
                  /\ b.fails = 6 => (~b.connected /\ b.pc = "cleanup")
                  /\ b.fails \in 1..5 /\ b.fails # a.fails =>
                        (b.connected /\ b.pc = "backoff")
                  /\ b.pc = "store" =>
                        (a.fails <= 5 /\ b.connected /\ b.read_failures = 0 /\ b.fails = 0)
                  /\ b.fails <= 6
             /\ (a.pc = "loop" /\ b.pc # "loop" /\ a.running) => b.pc = "read"
      ]_vars

\* C1 witness: a loop that had read frames has just made its 6th failed read in
\* a row and left the read loop, disconnected.
C1_Witness ==
    \E t \in TIDs :
        /\ threads[t].pc = "cleanup"
        /\ threads[t].fails = 6
        /\ ~threads[t].connected
        /\ threads[t].latest_frame # NoFrame
        /\ threads[t].running

\* The loop an index is mapped to, for an index in Keys.
Loop(i) == threads[camera_threads[i]]

\* C2: when reload_config returns, every index whose stored descriptor is
\* disabled is absent from camera_threads and is_camera_connected is False for it.
C2_DisabledHaveNoLoop ==
    [][ (mop = "reload" /\ mop' = "idle") =>
            \A i \in Cameras :
                ~config'[i].enabled =>
                    (camera_threads'[i] = NoThread /\ ~IsCameraConnected(i)')
      ]_vars

\* C2 witness: a reload has returned that started a loop for one index and left
\* a disabled index without one, although that index had a loop before (its old
\* thread is still running, unreferenced).
C2_Witness ==
    /\ mop = "idle"
    /\ \E i, j \in Cameras :
          /\ ~config[i].enabled
          /\ camera_threads[i] = NoThread
          /\ \E z \in Zombies : threads[z].camera_index = i
          /\ j \in Keys
          /\ Loop(j).pc = "start"

\* C3 as claimed: a get_frame call made when the polled loop had completed a
\* successful read (cap.read() had returned a frame), the loop being neither
\* stopped nor lost, returns a frame, and is_camera_connected is True.
C3_Original ==
    (/\ mlast = "get_frame"
     /\ mhad \in {"read", "stored"}
     /\ midx \in Keys
     /\ Loop(midx).pc \in LoopPcs
     /\ ~Loop(midx).stop_issued)
        => (mres # NoFrame /\ IsCameraConnected(midx))

\* C3 as amended: a get_frame call made when the polled loop had stored the
\* frame of a successful read in latest_frame, the loop being neither stopped
\* nor lost, returns a frame; and is_camera_connected is True for every mapped
\* loop that has opened its source and not left its read loop.
C3_FrameOnceStored ==
    /\ (/\ mlast = "get_frame"
        /\ mhad = "stored"
        /\ midx \in Keys
        /\ Loop(midx).pc \in LoopPcs
        /\ ~Loop(midx).stop_issued)
           => mres # NoFrame
    /\ \A i \in Keys : Loop(i).pc \in LoopPcs => IsCameraConnected(i)

\* C3 witness: get_frame has returned the stored latest frame of a running,
\* connected loop whose queue a consumer had drained.
C3_Witness ==
    /\ mlast = "get_frame"
    /\ mhad = "stored"
    /\ midx \in Keys
    /\ Loop(midx).pc \in LoopPcs
    /\ ~Loop(midx).stop_issued
    /\ mres = Loop(midx).latest_frame
    /\ Loop(midx).frame_queue = << >>

\* C4: a loop whose open failed has ended, is not connected and holds no frame;
\* from then on nothing about it changes (no retry) until a stop or reload
\* removes it from the map, and only reload_config puts a loop in the map: so
\* is_camera_connected stays False for its index until the next reload.
C4_FailedOpenIsFinal ==
    /\ [](\A t \in TIDs :
            threads[t].cap = "failed" =>
                /\ threads[t].pc = "done"
                /\ ~threads[t].connected
                /\ threads[t].latest_frame = NoFrame
                /\ threads[t].frame_queue = << >>)
    /\ [][ \A i \in Cameras :
             /\ (i \in Keys /\ Loop(i).cap = "failed") =>
                   \/ /\ camera_threads'[i] = camera_threads[i]
                      /\ threads'[camera_threads[i]] = Loop(i)
                      /\ ~IsCameraConnected(i)'
                   \/ /\ camera_threads'[i] = NoThread
                      /\ mop \in {"stop", "stop_all", "reload"}
             /\ (i \notin Keys /\ camera_threads'[i] # NoThread) =>
                   (mop = "reload" /\ mop' = "idle")
         ]_vars

\* C4 witness: the main thread is back in the event loop and a mapped loop has
\* ended on a failed open.
C4_Witness ==
    /\ mop = "idle"
    /\ \E i \in Keys : Loop(i).cap = "failed" /\ Loop(i).pc = "done"

\* C5: connected of a loop object goes from True to False at most once and is
\* False from then on; it becomes True only in the open step; and a loop that
\* has not been told to stop (running is True) drops it only in the read that
\* makes 6 failed reads in a row since the last good frame.
C5_DisconnectOnce ==
    /\ [](\A t \in TIDs :
            /\ threads[t].drops <= 1
            /\ threads[t].drops = 1 => ~threads[t].connected)
    /\ [][ \A t \in TIDs :
             LET a == threads[t]
                 b == threads'[t]
             IN /\ (a.connected /\ ~b.connected) =>
                      /\ b.pc \in {"cleanup", "done", "none"}
                      /\ a.running => (a.pc = "read" /\ b.fails = 6)
                /\ (~a.connected /\ b.connected) => (a.pc = "open" /\ a.drops = 0)
         ]_vars

\* C5 witness: a loop that read frames lost its source by itself (no stop was
\* issued) and ended, disconnected once, still in the map.
C5_Witness ==
    \E i \in Keys :
        /\ Loop(i).pc = "done"
        /\ Loop(i).drops = 1
        /\ Loop(i).cap = "released"
        /\ Loop(i).latest_frame # NoFrame
        /\ ~Loop(i).stop_issued

\* C6: the queue of every loop holds at most 2 frames, and a loop that is at
\* one of its two puts can always take that step (it never waits for space).
C6_QueueBounded ==
    \A t \in TIDs :
        /\ Len(threads[t].frame_queue) <= 2
        /\ threads[t].pc = "put" => ENABLED ThreadPut(t)
        /\ threads[t].pc = "reput" => ENABLED ThreadReput(t)

\* C6 witness: a loop is about to push onto a full queue while a consumer's
\* get_frame is in progress.
C6_Witness ==
    \E t \in TIDs :
        /\ Len(threads[t].frame_queue) = 2
        /\ threads[t].pc = "put"
        /\ mop = "gf_get"

\* C7 as claimed: a get_frame that takes its frame while the loop is between
\* pushes (so that latest_frame is the frame pushed last) returns that frame.
C7_PopLatestIsNewest ==
    [][ (/\ mop = "gf_get"
         /\ mop' = "idle"
         /\ Loop(midx).frame = NoFrame)
            => mres' = Loop(midx).latest_frame
      ]_vars

\* C8: in every state the consumer's call can take its next step: with the main
\* thread in the event loop get_frame and is_camera_connected can be called for
\* every index, and a get_frame in progress can complete, whatever the polled
\* loop is doing.
C8_ConsumerNeverWaits ==
    /\ mop = "idle" =>
          \A i \in Cameras : ENABLED GetFrameCall(i) /\ ENABLED IsConnectedCall(i)
    /\ mop = "gf_get" => ENABLED GetFrameQueue
    /\ mop = "gf_latest" => ENABLED GetFrameLatest

\* C8 witness: a get_frame is at its queue access, the queue is empty, and the
\* polled loop is inside cap.read().
C8_Witness ==
    /\ mop = "gf_get"
    /\ Loop(midx).pc = "read"
    /\ Loop(midx).frame_queue = << >>

\* C9 as claimed: once stop_camera, stop_all_cameras or reload_config has
\* returned (the main thread is back in the event loop), no loop that stop()
\* was issued to holds an open capture handle.
C9_ReleasedOnReturn ==
    mop = "idle" =>
        \A t \in TIDs : threads[t].stop_issued => threads[t].cap # "open"

\* C10 as claimed: a loop that stop() was issued to eventually ends (and then
\* is disconnected, its handle released).
C10_StopEndsLoop ==
    \A t \in TIDs : threads[t].stop_issued ~> ~IsAlive(t)

\* C11 as claimed: for every index at most one capture thread is alive (started
\* and not ended), whether or not the map still refers to it.
C11_OneLiveLoopPerIndex ==
    \A i \in Cameras :
        Cardinality({ t \in TIDs : IsAlive(t) /\ threads[t].camera_index = i }) <= 1

C14_GetFrameGuard ==
    [][ /\ (mop = "idle" /\ mop' # "stop" /\ mainVars' # mainVars /\ midx' \in Cameras) =>
              LET i == midx'
              IN IF i \in Keys /\ Loop(i).connected
                 THEN mop' = "gf_get"
                 ELSE mop' = "idle" /\ mres' = NoFrame /\ mlast' = "get_frame"
        /\ (mop \in {"gf_get", "gf_latest"} /\ mop' = "idle") =>
              /\ mlast' = "get_frame"
              /\ \/ /\ Loop(midx).frame_queue # << >>
                    /\ mres' = Head(Loop(midx).frame_queue)
                 \/ mres' = Loop(midx).latest_frame
      ]_vars

\* C14 witness: get_frame returned None for a loop that had lost its source
\* and still held its last frame.
C14_Witness ==
    /\ mlast = "get_frame"
    /\ mres = NoFrame
    /\ mhad = "stored"
    /\ midx \in Keys
    /\ ~Loop(midx).connected
    /\ Loop(midx).latest_frame # NoFrame

\* C16: in the step in which reload_config returns, the map it found has been
\* emptied (no old thread object is kept), and every enabled index is mapped to
\* a thread object that did not exist before, distinct from the others, created
\* with the stored descriptor of that index and about to enter run(), where it
\* opens the source whatever became of the index's previous loop.
C16_ReloadReplacesEveryLoop ==
    [][ (mop = "reload" /\ mop' = "idle") =>
            /\ Keys = {}
            /\ \A i \in Cameras :
                  config[i].enabled =>
                     LET t == camera_threads'[i]
                     IN /\ t # NoThread
                        /\ threads[t] = Blank
                        /\ threads'[t].pc = "start"
                        /\ threads'[t].camera_index = i
                        /\ threads'[t].config = config[i]
                        /\ threads'[t].cap = "none"
                        /\ ~threads'[t].connected
                        /\ threads'[t].latest_frame = NoFrame
                        /\ \A j \in Cameras \ {i} : camera_threads'[j] # t
      ]_vars

\* C16 witness: after a reload the new loop of an index is opening the source
\* while the index's previous loop, discarded by a reload or stop, still runs.
C16_Witness ==
    /\ mop = "idle"
    /\ \E i \in Keys :
          /\ Loop(i).pc = "open"
          /\ \E z \in Zombies : threads[z].camera_index = i

\* C17 as claimed: when reload_config returns, no index whose stored descriptor
\* is an enabled network source with an empty target has a thread in the map.
C17_EmptyTargetNeverStarted ==
    [][ (mop = "reload" /\ mop' = "idle") =>
            \A i \in Cameras :
                (/\ config[i].enabled
                 /\ config[i].source_type = "rtsp"
                 /\ config[i].url = "") => camera_threads'[i] = NoThread
      ]_vars

\* C20 as claimed: the loop's get_frame returns the head of the queue when the
\* queue is not empty (and removes it), else latest_frame; and it returns None
\* only if the loop has completed no successful read.
C20_Original ==
    [][ /\ (mop = "gf_get" /\ Loop(midx).frame_queue # << >>) =>
              /\ mop' = "idle"
              /\ mres' = Head(Loop(midx).frame_queue)
              /\ threads'[camera_threads[midx]].frame_queue = Tail(Loop(midx).frame_queue)
        /\ (mop = "gf_latest" /\ mop' = "idle") =>
              /\ mres' = Loop(midx).latest_frame
              /\ mres' = NoFrame => Had(Loop(midx)) = "none"
      ]_vars

\* C20 as amended: the same order of fallbacks; get_frame returns None only if
\* the loop has stored no frame in latest_frame yet (it may have read one).
C20_PopLatestOrder ==
    [][ /\ (mop = "gf_get" /\ mop' # "gf_get") =>
              IF Loop(midx).frame_queue # << >>
              THEN /\ mop' = "idle"
                   /\ mres' = Head(Loop(midx).frame_queue)
                   /\ threads'[camera_threads[midx]].frame_queue =
                         Tail(Loop(midx).frame_queue)
              ELSE mop' = "gf_latest"
        /\ (mop = "gf_latest" /\ mop' = "idle") =>
              /\ mres' = Loop(midx).latest_frame
              /\ mres' = NoFrame => Had(Loop(midx)) \in {"none", "read"}
      ]_vars

\* C20 witness: get_frame found the queue empty and returned None while the
\* loop held a frame it had read and not yet stored.
C20_Witness ==
    /\ mlast = "get_frame"
    /\ mres = NoFrame
    /\ midx \in Keys
    /\ Loop(midx).connected
    /\ Loop(midx).pc = "store"
    /\ Loop(midx).latest_frame = NoFrame

\* C15: stop_camera(i) takes from the map the entry of i and no other, stops
\* (signals) no thread but the one of i, and has removed i when it returns;
\* called for an index that is absent, it changes no entry and signals no
\* thread, and returns.
C15_StopOneIndex ==
    [][ /\ (mop = "idle" /\ mop' = "stop") =>
              /\ mtodo' = {midx'} \cap Keys
              /\ camera_threads' = camera_threads
        /\ mop = "stop" =>
              /\ \A j \in Cameras \ {midx} : camera_threads'[j] = camera_threads[j]
              /\ camera_threads'[midx] \in {camera_threads[midx], NoThread}
              /\ \A t \in TIDs :
                    (threads'[t].stop_issued /\ ~threads[t].stop_issued) =>
                        t = camera_threads[midx]
              /\ config' = config
              /\ mop' = "idle" => (midx \notin Keys /\ camera_threads' = camera_threads)
              /\ (midx \notin Keys /\ mjoin = NoIndex) =>
                    /\ camera_threads' = camera_threads
                    /\ \A t \in TIDs : threads'[t].stop_issued => threads[t].stop_issued
      ]_vars

\* C15 witness: stop_camera(i) is about to return; it has removed the entry of
\* i, whose thread did not end within the join's second, and the loop of the
\* other index is still in the map.
C15_Witness ==
    /\ mop = "stop"
    /\ mtodo = {}
    /\ mjoin = NoIndex
    /\ midx \notin Keys
    /\ \E z \in Zombies : threads[z].camera_index = midx /\ threads[z].stop_issued
    /\ \E j \in Keys : IsAlive(camera_threads[j])

\* C13: a reload_config that finds every source enabled (NumCameras standing
\* for 48) leaves exactly one loop per index in the map, all distinct, each
\* created with the index and the stored descriptor of its own index; and a
\* frame that get_frame(i) returns was read by a loop of index i.
C13_OneLoopPerIndexNoCrossTalk ==
    /\ []((mlast = "get_frame" /\ mres # NoFrame) => mres.cam = midx)
    /\ [][ (mop = "reload" /\ mop' = "idle" /\ \A i \in Cameras : config[i].enabled) =>
              /\ \A i \in Cameras :
                    /\ camera_threads'[i] # NoThread
                    /\ threads'[camera_threads'[i]].camera_index = i
                    /\ threads'[camera_threads'[i]].config = config[i]
                    /\ threads'[camera_threads'[i]].pc = "start"
              /\ Cardinality({ camera_threads'[i] : i \in Cameras }) = NumCameras
         ]_vars

\* C13 witness: after the all-disabled start and a reload with every source
\* enabled, every index has a loop that has read a frame, and get_frame of the
\* last index has returned a frame.
C13_Witness ==
    /\ Keys = Cameras
    /\ \A i \in Cameras : config[i].enabled /\ Loop(i).latest_frame # NoFrame
    /\ mlast = "get_frame"
    /\ midx = NumCameras - 1
    /\ mres # NoFrame

\* C18 as claimed: ConfigManager() on a file that is absent or corrupt (not
\* text, or not JSON) completes and leaves the default configuration, every
\* slot disabled.
C18_ConstructsDefaults ==
    [][ (mop = "new" /\ file \in {"absent", "not_text", "not_json"}) =>
            (mop' = "idle" /\ config' = DefaultConfig)
      ]_vars

\* C19: test_camera_connection returns success exactly when isOpened() answered
\* True and the one cap.read() answered ret = True; for an RTSP descriptor with
\* an empty URL it fails without creating a capture; and no step of it changes
\* the supervisor's map, a thread object, the stored configuration or the file.
C19_TestConnection ==
    [][ /\ (mop = "test_ret" /\ mop' = "idle") =>
              /\ test.result \in {"ok", "fail"}
              /\ test.result = "ok" <=> (test.opened /\ test.read = "ok")
              /\ (test.config.source_type = "rtsp" /\ test.config.url = "") =>
                    (test.result = "fail" /\ test.cap = "none" /\ ~test.opened)
        /\ (mop \in TestPcs \/ mop' \in TestPcs) =>
              /\ camera_threads' = camera_threads
              /\ config' = config
              /\ file' = file
              /\ mop' # mop => threads' = threads
      ]_vars

\* C19 witness: a test is about to return success while every index has a
\* loop in the map and one of them is connected.
C19_Witness ==
    /\ mop = "test_ret"
    /\ test.result = "ok"
    /\ Keys = Cameras
    /\ \E i \in Keys : Loop(i).connected

\* C21 as claimed: no step of a get_frame call changes the queue or the
\* latest_frame of any loop.
C21_GetFrameLeavesBuffer ==
    [][ (mop \in {"gf_get", "gf_latest"} /\ mop' # mop) =>
            \A t \in TIDs :
                /\ threads'[t].frame_queue = threads[t].frame_queue
                /\ threads'[t].latest_frame = threads[t].latest_frame
      ]_vars

\* C26 as claimed: a frame that get_frame returns to a consumer is not older
\* (in the loop's capture order) than the frame the consumer's previous
\* get_frame returned.
C26_ConsumerSeesNoOlderFrame ==
    [][ (/\ mop \in {"gf_get", "gf_latest"}
         /\ mop' = "idle"
         /\ mres # NoFrame
         /\ mres' # NoFrame) => mres'.n >= mres.n
      ]_vars

\* C27 as claimed: when test_camera_connection is about to return, the capture
\* it created is not open.
C27_TestReleasesHandle ==
    mop = "test_ret" => test.cap # "open"

\* C22: with no consumer, the queue of a loop holds consecutive frames in
\* capture order; a put onto a queue of fewer than 2 frames appends the frame,
\* and onto a full queue it removes the head (the oldest frame) and then
\* appends the frame; latest_frame is the frame just read from the store step
\* on, and outside a push it is the last frame of the queue.
C22_QueueIsFifo ==
    /\ [](\A t \in TIDs :
            LET th == threads[t]
                q == th.frame_queue
            IN /\ \A a \in 1 .. Len(q) : q[a].n = q[1].n + (a - 1)
               /\ th.pc \in {"put", "evict", "reput"} => th.latest_frame = th.frame
               /\ (th.pc \notin {"store", "put", "evict", "reput"}
                     /\ th.latest_frame # NoFrame) =>
                       (Len(q) >= 1 /\ q[Len(q)] = th.latest_frame))
    /\ [][ \A t \in TIDs :
             LET a == threads[t]
                 b == threads'[t]
             IN /\ (a.pc = "store" /\ b.pc # "store") => b.latest_frame = a.frame
                /\ (a.pc = "put" /\ b.pc # "put") =>
                      IF Len(a.frame_queue) < 2
                      THEN b.frame_queue = Append(a.frame_queue, a.frame)
                      ELSE b.pc = "evict" /\ b.frame_queue = a.frame_queue
                /\ (a.pc = "evict" /\ b.pc # "evict") =>
                      (b.pc = "reput" /\ b.frame_queue = Tail(a.frame_queue))
                /\ (a.pc = "reput" /\ b.pc # "reput") =>
                      (b.pc = "sleep" /\ b.frame_queue = Append(a.frame_queue, a.frame))
         ]_vars

\* C22 witness: the loop has pushed its third frame onto the full queue: the
\* first frame is gone, frames 2 and 3 are queued in that order.
C22_Witness ==
    \E t \in TIDs :
        /\ threads[t].pc = "sleep"
        /\ threads[t].frame_queue = << Frame(0, 2), Frame(0, 3) >>
        /\ threads[t].latest_frame = Frame(0, 3)

\* C23: a cap.read() that raises leaves read_failures, connected and the handle
\* as they were and takes the loop to the 1 s pause, from which it goes to the
\* next iteration; the loop leaves its read loop only on the 6th failed read in
\* a row or when it finds running False, so exceptions alone never end it.
C23_ExceptionIsTransient ==
    [][ \A t \in TIDs :
          LET a == threads[t]
              b == threads'[t]
          IN /\ (a.pc = "read" /\ b.pc = "pause") =>
                   /\ b.read_failures = a.read_failures
                   /\ b.fails = a.fails
                   /\ b.connected = a.connected
                   /\ b.cap = a.cap
             /\ a.pc = "pause" =>
                   /\ b.pc \in {"pause", "loop"}
                   /\ b.read_failures = a.read_failures
                   /\ b.connected = a.connected
             /\ (a.pc \in LoopPcs /\ b.pc \notin LoopPcs) =>
                   /\ b.pc = "cleanup"
                   /\ \/ (a.pc = "read" /\ b.fails = 6)
                      \/ (a.pc = "loop" /\ ~a.running)
      ]_vars

\* C23 witness: a read raised after 5 failed reads in a row; the loop pauses,
\* still connected, its counter still 5.
C23_Witness ==
    \E t \in TIDs :
        /\ threads[t].pc = "pause"
        /\ threads[t].frame = NoFrame
        /\ threads[t].read_failures = 5
        /\ threads[t].connected
        /\ threads[t].running

\* C24: a step of a capture loop (a failed open, a failed read, the 6th failed
\* read in a row, an exception during a read, or any other) changes that
\* loop's thread object only: every other loop keeps its connected flag, its
\* queue, its latest frame and its running flag, and the supervisor's map is
\* as it was.  The map changes only inside stop_camera, stop_all_cameras and
\* reload_config; a loop whose run() returned while it was in the map stays
\* in the map and reports not connected.
C24_FailureStaysLocal ==
    [][ /\ (threads' # threads /\ mainVars' = mainVars) =>
              /\ camera_threads' = camera_threads
              /\ \E t \in TIDs : \A u \in TIDs \ {t} : threads'[u] = threads[u]
        /\ camera_threads' # camera_threads => mop \in {"stop", "stop_all", "reload"}
        /\ \A t \in TIDs :
              (IsAlive(t) /\ threads'[t].pc = "done") =>
                  /\ \E i \in Cameras : camera_threads'[i] = t
                  /\ ~threads'[t].connected
      ]_vars

\* C24 witness: one loop ended on its own after 6 failed reads in a row and is
\* still in the map, not connected, with no stop issued; its sibling is
\* connected, running, and holds the frame it read.
C24_Witness ==
    \E i, j \in Keys :
        /\ i # j
        /\ Loop(i).pc = "done"
        /\ Loop(i).drops = 1
        /\ ~Loop(i).stop_issued
        /\ ~Loop(i).connected
        /\ Loop(j).connected
        /\ Loop(j).running
        /\ Loop(j).frame_queue = << Frame(j, 1) >>
        /\ Loop(j).latest_frame = Frame(j, 1)

\* C25: a set_camera_config changes the stored configuration and no thread
\* object, and for as long as a thread object exists its descriptor is the one
\* it was created with: a loop's descriptor differs from the stored one only
\* because the store moved on, until a reload replaces the loop.
C25_DescriptorFixed ==
    [][ /\ config' # config => threads' = threads
        /\ \A t \in TIDs :
              (threads[t].pc # "none" /\ threads'[t].pc # "none") =>
                  threads'[t].config = threads[t].config
      ]_vars

\* C25 witness: a live loop holds an enabled descriptor while the stored
\* descriptor of its index has been changed to another one.
C25_Witness ==
    \E i \in Keys :
        /\ mop = "idle"
        /\ IsAlive(camera_threads[i])
        /\ Loop(i).config.enabled
        /\ Loop(i).config # config[i]

\* The newest frame a loop has read: the one in hand, else the stored one.
Newest(th) == IF th.frame # NoFrame THEN th.frame ELSE th.latest_frame

\* C28: if from some point on the loop of index 0 is connected and the newest
\* frame it has read is f, and a consumer calls get_frame(0) again and again,
\* then from some point on every get_frame(0) returns f.
C28_NewestFrameArrives ==
    \A k \in 1..MaxFrames :
        ( /\ <>[](/\ IsCameraConnected(0)
                  /\ Newest(Loop(0)) = Frame(0, k))
          /\ []<>(mop = "gf_get" /\ midx = 0) )
        => <>[]((mlast = "get_frame" /\ midx = 0) => mres = Frame(0, k))

\* C28 witness: the loop read two frames, the consumer drained the queue and
\* get_frame now returns the second from latest_frame while the loop, still
\* connected, pauses after a read that raised.
C28_Witness ==
    /\ mlast = "get_frame"
    /\ midx = 0
    /\ mres = Frame(0, 2)
    /\ IsCameraConnected(0)
    /\ Loop(0).latest_frame = Frame(0, 2)
    /\ Loop(0).frame_queue = << >>
    /\ Loop(0).pc = "pause"

====
